---- MODULE Spec2Model ----
(***************************************************************************)
(* A model of the Bayesian-network inference core of src/bayes_network.py  *)
(* (class BayesNetwork) with the CPT builders of src/utils.py.             *)
(*                                                                         *)
(* Encoding of the Python values:                                          *)
(*   - the variable "season" (a str) is the empty tuple <<>>;              *)
(*   - a grid vertex (x, y) is <<x, y>>;                                   *)
(*   - a grid edge ((x1, y1), (x2, y2)) is <<x1, y1, x2, y2>>;             *)
(*   - True / False / 'low' / 'medium' / 'high' are the strings "True",    *)
(*     "False", "low", "medium", "high";                                   *)
(*   - a dict is a function, `k in d` is k \in DOMAIN d;                   *)
(*   - a CPT probability is the numerator of a fraction over Den, so that  *)
(*     "1 - p" is Den - p.  EnumerationAll multiplies one CPT entry per    *)
(*     variable of its list, hence returns the numerator of its weight     *)
(*     over Den^Len(nodes); Normalize divides weights of one common scale; *)
(*   - a number rounded to ROUND_DIGITS digits is an integer count of      *)
(*     units of 10^-ROUND_DIGITS (1.0 is Scale);                           *)
(*   - a KeyError raised by a failed evidence lookup is the value KeyError *)
(*     and propagates through every caller as the exception does.          *)
(***************************************************************************)
EXTENDS Integers, Sequences, FiniteSets, TLC

VARIABLES
    self,       \* the canonical BayesNetwork object: bn (the DAG) and the CPTs
    evidence,   \* the evidence map the caller holds and passes to the calls
    op,         \* the name of the last call made ("" before the first)
    arg,        \* the argument of the last call (query list, sequence, <<start, end>>)
    before,     \* the evidence map as it was when the last call was made
    ret,        \* what the last call returned
    queryDict   \* the weights EnumerationAsk collected before Normalize

vars == <<self, evidence, op, arg, before, ret, queryDict>>

\* ----------------------------------------------------------------- bounds
\* The largest number of assignments the caller's evidence map holds.
MaxEvidence == 2

\* ------------------------------------------------------- program constants
ROUND_DIGITS == 5

Scale == 10 ^ ROUND_DIGITS

\* The denominator of every CPT entry of the networks built here.
Den == 4

KeyError == -1

\* ------------------------------------------------------------ value helpers
Season == <<>>

IsStr(y) == Len(y) = 0

IsNode(y) == Len(y) = 2

IsEdge(y) == Len(y) = 4

EdgeOf(u, v) == u \o v

\* node[0] and node[1] of an edge tuple
Endpoint0(edge) == <<edge[1], edge[2]>>

Endpoint1(edge) == <<edge[3], edge[4]>>

\* Python's order on tuples of ints, on the flattened encoding
RECURSIVE LexLess(_, _)
LexLess(a, b) ==
    IF b = <<>> THEN FALSE
    ELSE IF a = <<>> THEN TRUE
    ELSE IF Head(a) # Head(b) THEN Head(a) < Head(b)
    ELSE LexLess(Tail(a), Tail(b))

\* tuple(sorted(q)) of an edge tuple
Sorted(edge) ==
    IF LexLess(Endpoint1(edge), Endpoint0(edge))
    THEN EdgeOf(Endpoint1(edge), Endpoint0(edge))
    ELSE edge

\* tuple(sorted(q)) if isinstance(q, tuple) and q and isinstance(q[0], tuple) else q
Canonical(q) == IF IsEdge(q) THEN Sorted(q) ELSE q

Options(y) == IF IsStr(y) THEN <<"low", "medium", "high">> ELSE <<"True", "False">>

\* F applied to the value of v, with v evaluated once (a local variable of the code)
Bind(v, F(_)) == CHOOSE r \in {F(x) : x \in {v}} : TRUE

\* the list s with every element evaluated
List(s) == s \o <<>>

Range(s) == {s[i] : i \in 1..Len(s)}

\* d.values()
Range2(d) == {d[k] : k \in DOMAIN d}

Min(a, b) == IF a <= b THEN a ELSE b

\* e | {k: v}
Assign(e, k, v) == [x \in DOMAIN e \cup {k} |-> IF x = k THEN v ELSE e[x]]

EmptyDict == [x \in {} |-> 0]

RECURSIVE Sum(_, _)
Sum(f, keys) ==
    IF keys = {} THEN 0
    ELSE LET k == CHOOSE x \in keys : TRUE IN f[k] + Sum(f, keys \ {k})

\* round(n / d) to the nearest integer, ties to even, as Python's round
RoundHalfEven(n, d) ==
    LET q == n \div d
        r == n % d
    IN  IF 2 * r > d THEN q + 1
        ELSE IF 2 * r < d THEN q
        ELSE IF q % 2 = 0 THEN q ELSE q + 1

\* round(x, ROUND_DIGITS) of the CPT fraction x / Den, again as a numerator over Den
Round(x) == (RoundHalfEven(x * Scale, Den) * Den) \div Scale

\* --------------------------------------------------------------- utils.py
CPTVertex(p) ==
    ("low" :> Round(p)) @@ ("medium" :> Round(Min(Den, p * 2)))
        @@ ("high" :> Round(Min(Den, p * 3)))

CPTEdge(qi, leakage) ==
    (<<"False", "False">> :> leakage)
        @@ (<<"True", "False">> :> Round(Den - qi))
        @@ (<<"False", "True">> :> Round(Den - qi))
        @@ (<<"True", "True">> :> Round(Den - (qi * qi) \div Den))

\* ------------------------------------------------------ networkx graphs
\* A DiGraph keeps its nodes and its edges in insertion order.
EmptyGraph == [nodes |-> <<>>, edges |-> <<>>]

RECURSIVE AddNodesFrom(_, _)
AddNodesFrom(G, ns) ==
    IF ns = <<>> THEN G
    ELSE AddNodesFrom(
            IF Head(ns) \in Range(G.nodes) THEN G
            ELSE [G EXCEPT !.nodes = Append(@, Head(ns))],
            Tail(ns))

RECURSIVE AddEdgesFrom(_, _)
AddEdgesFrom(G, es) ==
    IF es = <<>> THEN G
    ELSE AddEdgesFrom(
            IF Head(es) \in Range(G.edges) THEN G
            ELSE [AddNodesFrom(G, Head(es)) EXCEPT !.edges = Append(@, Head(es))],
            Tail(es))

RemoveNode(G, n) ==
    [nodes |-> SelectSeq(G.nodes, LAMBDA m : m # n),
     edges |-> SelectSeq(G.edges, LAMBDA d : d[1] # n /\ d[2] # n)]

InDegree(G, n) == Cardinality({i \in 1..Len(G.edges) : G.edges[i][2] = n})

OutDegree(G, n) == Cardinality({i \in 1..Len(G.edges) : G.edges[i][1] = n})

\* G.neighbors(n): the successors of n, in the order their edges were added
RECURSIVE Neighbors(_, _)
Neighbors(es, n) ==
    IF es = <<>> THEN <<>>
    ELSE (IF Head(es)[1] = n THEN <<Head(es)[2]>> ELSE <<>>) \o Neighbors(Tail(es), n)

RECURSIVE Visits(_, _)
Visits(G, generation) ==
    IF generation = <<>> THEN <<>>
    ELSE Neighbors(G.edges, Head(generation)) \o Visits(G, Tail(generation))

\* one generation: the children whose last parent is in this generation
RECURSIVE NextGeneration(_, _, _)
NextGeneration(indegree, visits, zero) ==
    IF visits = <<>> THEN [indegree |-> indegree, zero |-> zero]
    ELSE LET child == Head(visits)
         IN  Bind([indegree EXCEPT ![child] = @ - 1], LAMBDA decremented :
                Bind(IF decremented[child] = 0 THEN Append(zero, child) ELSE zero,
                     LAMBDA z : NextGeneration(decremented, Tail(visits), z)))

RECURSIVE Generations(_, _, _)
Generations(G, indegree, generation) ==
    IF generation = <<>> THEN <<>>
    ELSE Bind(NextGeneration(indegree, Visits(G, generation), <<>>), LAMBDA n :
            generation \o Generations(G, n.indegree, n.zero))

\* nx.topological_sort(G): the nodes generation by generation
TopologicalSort(G) ==
    Bind([n \in Range(G.nodes) |-> InDegree(G, n)] @@ EmptyDict, LAMBDA indegree :
        Bind(SelectSeq(G.nodes, LAMBDA n : indegree[n] = 0), LAMBDA zero :
            Generations(G, indegree, zero)))

\* nodes[::-1] gone wrong: the order is not reversed
NotReversed(s) == s

Reverse(s) == [i \in 1..Len(s) |-> s[Len(s) + 1 - i]]

\* ------------------------------------------------------------ the grid
\* nx.grid_2d_graph(x + 1, y + 1): the nodes row by row, the edges between
\* consecutive rows first, then those between consecutive columns
GridNodes(x, y) == [k \in 1..((x + 1) * (y + 1)) |->
                       <<(k - 1) \div (y + 1), (k - 1) % (y + 1)>>]

Grid2dGraph(x, y) ==
    [nodes |-> GridNodes(x, y),
     edges |-> [k \in 1..(x * (y + 1)) |->
                   <<<<1 + ((k - 1) \div (y + 1)), (k - 1) % (y + 1)>>,
                     <<(k - 1) \div (y + 1), (k - 1) % (y + 1)>>>>]
               \o [k \in 1..((x + 1) * y) |->
                   <<<<(k - 1) \div y, 1 + ((k - 1) % y)>>,
                     <<(k - 1) \div y, (k - 1) % y>>>>]]

\* ------------------------------------------------- bayes_network.py objects
\* A dict literal as its items in insertion order.
Keys(items) == [i \in 1..Len(items) |-> items[i][1]]

Dict(items) == [k \in Range(Keys(items)) |->
                   items[CHOOSE i \in 1..Len(items) : items[i][1] = k][2]]

RECURSIVE ParentEdges(_, _)
\* [(node, edge) for node in nodes for edge in fragEdges if node in edge]
ParentEdges(nodes, fragEdges) ==
    IF nodes = <<>> THEN <<>>
    ELSE LET incident == SelectSeq(fragEdges, LAMBDA edge :
                            Head(nodes) \in {Endpoint0(edge), Endpoint1(edge)})
         IN  [i \in 1..Len(incident) |-> <<Head(nodes), incident[i]>>]
                \o ParentEdges(Tail(nodes), fragEdges)

\* BayesNetwork.__init__, the probabilistic DAG
BayesNetwork(season, fragEdgesCPT, nodesCPT, x, y) ==
    LET nodes == Keys(nodesCPT)
        fragEdges == Keys(fragEdgesCPT)
        g1 == AddNodesFrom(EmptyGraph, <<Season>>)
        g2 == AddNodesFrom(g1, fragEdges)
        g3 == AddNodesFrom(g2, nodes)
        g4 == AddEdgesFrom(g3, [i \in 1..Len(nodes) |-> <<Season, nodes[i]>>])
        g5 == AddEdgesFrom(g4, ParentEdges(nodes, fragEdges))
    IN  [season |-> season,
         fragEdgesCPT |-> Dict(fragEdgesCPT),
         nodesCPT |-> Dict(nodesCPT),
         bn |-> g5,
         grid |-> Grid2dGraph(x, y)]

\* The objects a call works on: reference -> object; SelfRef is the canonical one.
SelfRef == 0

Heap(obj) == SelfRef :> obj

\* DeepCopy gone wrong: the same object under the same reference, no copy
DeepCopyAliased(heap, ref) == [heap |-> heap, ref |-> ref]

\* cp.deepcopy(obj): a fresh object with a copy of every field
DeepCopy(heap, ref) ==
    [heap |-> heap @@ (Cardinality(DOMAIN heap) :> heap[ref]),
     ref |-> Cardinality(DOMAIN heap)]

\* the forward pass gone wrong: a parentless node is removed whether or not it
\* is observed
RECURSIVE ForwardPassUnobserved(_, _, _, _, _)
ForwardPassUnobserved(heap, newBN, nodes, query, e) ==
    IF nodes = <<>> THEN heap
    ELSE LET node == Head(nodes)
             G == heap[newBN].bn
         IN  Bind(IF InDegree(G, node) = 0 /\ node \notin Range(query)
                  THEN [heap EXCEPT ![newBN].bn = RemoveNode(G, node)]
                  ELSE heap,
                  LAMBDA h : ForwardPassUnobserved(h, newBN, Tail(nodes), query, e))

RECURSIVE ForwardPass(_, _, _, _, _)
ForwardPass(heap, newBN, nodes, query, e) ==
    IF nodes = <<>> THEN heap
    ELSE LET node == Head(nodes)
             G == heap[newBN].bn
         IN  Bind(IF InDegree(G, node) = 0 /\ node \in DOMAIN e /\ node \notin Range(query)
                  THEN [heap EXCEPT ![newBN].bn = RemoveNode(G, node)]
                  ELSE heap,
                  LAMBDA h : ForwardPass(h, newBN, Tail(nodes), query, e))

RECURSIVE BackwardPass(_, _, _, _, _)
BackwardPass(heap, newBN, nodes, query, e) ==
    IF nodes = <<>> THEN heap
    ELSE LET node == Head(nodes)
             G == heap[newBN].bn
         IN  Bind(IF /\ node \in Range(G.nodes)
                     /\ OutDegree(G, node) = 0
                     /\ node \notin DOMAIN e
                     /\ node \notin Range(query)
                  THEN [heap EXCEPT ![newBN].bn = RemoveNode(G, node)]
                  ELSE heap,
                  LAMBDA h : BackwardPass(h, newBN, Tail(nodes), query, e))

\* BayesNetwork.RemoveBarrenNodes: the heap after the call and the object returned
RemoveBarrenNodes(heap, this, query, e) ==
    Bind(DeepCopy(heap, this), LAMBDA newBN :
        Bind(TopologicalSort(newBN.heap[this].bn), LAMBDA nodes :
            Bind(ForwardPass(newBN.heap, newBN.ref, nodes, <<query>>, e), LAMBDA forward :
                [heap |-> BackwardPass(forward, newBN.ref, List(Reverse(nodes)),
                                       <<query>>, e),
                 ref |-> newBN.ref])))

\* BayesNetwork.VarCPT
VarCPT(obj, node) ==
    IF IsStr(node) THEN obj.season
    ELSE IF IsNode(node) THEN obj.nodesCPT[node]
    ELSE obj.fragEdgesCPT[node]

\* The evidence lookups of Parent succeed.
ParentInEvidence(node, e) ==
    IF IsStr(node) THEN TRUE
    ELSE IF IsNode(node) THEN Season \in DOMAIN e
    ELSE Endpoint0(node) \in DOMAIN e /\ Endpoint1(node) \in DOMAIN e

\* BayesNetwork.Parent
Parent(node, e) ==
    IF IsStr(node) THEN 0
    ELSE IF IsNode(node) THEN e[Season]
    ELSE <<e[Endpoint0(node)], e[Endpoint1(node)]>>

\* Probability gone wrong: the CPT entry read as the probability of False
ProbabilityOfFalse(obj, y, e, option) ==
    IF IsStr(y) THEN obj.season[option][1]
    ELSE IF ~ParentInEvidence(y, e) THEN KeyError
    ELSE IF option = "False" THEN VarCPT(obj, y)[Parent(y, e)]
    ELSE Den - VarCPT(obj, y)[Parent(y, e)]

\* BayesNetwork.Probability
Probability(obj, y, e, option) ==
    IF IsStr(y) THEN obj.season[option][1]
    ELSE IF ~ParentInEvidence(y, e) THEN KeyError
    ELSE IF option = "True" THEN VarCPT(obj, y)[Parent(y, e)]
    ELSE Den - VarCPT(obj, y)[Parent(y, e)]

\* p * r, unless one of them raised
Times(p, r) == IF p = KeyError \/ r = KeyError THEN KeyError ELSE p * r

\* np.inner(p, r), unless one of the entries raised
RECURSIVE Inner(_, _)
Inner(p, r) ==
    IF p = <<>> THEN 0
    ELSE Bind(Times(Head(p), Head(r)), LAMBDA head :
            Bind(Inner(Tail(p), Tail(r)), LAMBDA rest :
                IF head = KeyError \/ rest = KeyError THEN KeyError ELSE head + rest))

\* BayesNetwork.EnumerationAll
RECURSIVE EnumerationAll(_, _, _)
EnumerationAll(obj, nodes, e) ==
    IF Len(nodes) = 0 THEN 1
    ELSE LET y == Canonical(nodes[1])
             options == Options(y)
         IN  IF y \in DOMAIN e
             THEN Bind(Probability(obj, y, e, e[y]), LAMBDA p :
                    Bind(EnumerationAll(obj, Tail(nodes), e), LAMBDA r : Times(p, r)))
             ELSE Bind(List([i \in 1..Len(options) |->
                                Probability(obj, y, e, options[i])]), LAMBDA p :
                    Bind(List([i \in 1..Len(options) |->
                                Bind(Assign(e, y, options[i]) @@ EmptyDict, LAMBDA ey :
                                    EnumerationAll(obj, Tail(nodes), ey))]), LAMBDA r :
                        Inner(p, r)))

\* Normalize gone wrong: the quotient cut off instead of rounded
NormalizeTruncated(d) ==
    LET sumQ == Sum(d, DOMAIN d)
    IN  IF sumQ = 0 THEN d
        ELSE [k \in DOMAIN d |-> (d[k] * Scale) \div sumQ]

\* BayesNetwork.Normalize
Normalize(d) ==
    LET sumQ == Sum(d, DOMAIN d)
    IN  IF sumQ = 0 THEN d
        ELSE [k \in DOMAIN d |-> RoundHalfEven(d[k] * Scale, sumQ)]

\* what a caller sees of a call that raised KeyError
Raised(options) == [k \in Range(options) |-> KeyError]

\* the loop of EnumerationAsk over the options: e[query] = q, prune, enumerate
RECURSIVE AskLoop(_, _, _, _, _, _)
AskLoop(heap, this, query, e, options, d) ==
    IF options = <<>> THEN [heap |-> heap, e |-> e, queryDict |-> d]
    ELSE Bind(Assign(e, query, Head(options)) @@ EmptyDict, LAMBDA e1 :
            Bind(RemoveBarrenNodes(heap, this, query, e1), LAMBDA barrenBN :
                Bind(TopologicalSort(barrenBN.heap[barrenBN.ref].bn), LAMBDA nodes :
                    Bind(EnumerationAll(barrenBN.heap[barrenBN.ref], nodes, e1), LAMBDA w :
                        Bind(Assign(d, Head(options), w) @@ EmptyDict, LAMBDA d1 :
                            AskLoop(barrenBN.heap, this, query, e1, Tail(options), d1))))))

\* the early returns gone wrong: the evidence tested before the membership
AskCaseEvidenceFirst(inNetwork, inEvidence) ==
    IF inEvidence THEN "observed"
    ELSE IF ~inNetwork THEN "fallback"
    ELSE "enumerate"

\* the early returns of EnumerationAsk, in the order the code tests them
AskCase(inNetwork, inEvidence) ==
    IF ~inNetwork THEN "fallback"
    ELSE IF inEvidence THEN "observed"
    ELSE "enumerate"

\* {True: 0.0, False: 1.0}
Fallback == ("True" :> 0) @@ ("False" :> Scale)

\* the point mass gone wrong: 1.0 on the first option, whatever was observed
PointMassOnFirst(options, observed) ==
    [k \in Range(options) |-> IF k = options[1] THEN Scale ELSE 0]

\* {e[query]: 1.0} | {other: 0.0 for other in otherOptions}
PointMass(options, observed) ==
    [k \in Range(options) |-> IF k = observed THEN Scale ELSE 0]

\* BayesNetwork.EnumerationAsk: the distribution returned, the caller's map e
\* and the heap after the call, and the weights handed to Normalize
EnumerationAsk(heap, this, queryList, e) ==
    LET query == Canonical(queryList[1])
        options == Options(query)
        none == [heap |-> heap, e |-> e, queryDict |-> EmptyDict]
        case == AskCase(query \in Range(heap[this].bn.nodes), query \in DOMAIN e)
    IN  IF case = "fallback" THEN none @@ [dist |-> Fallback]
        ELSE IF case = "observed"
        THEN none @@ [dist |-> PointMass(options, e[query])]
        ELSE Bind(AskLoop(heap, this, query, e, options, EmptyDict), LAMBDA loop :
                loop @@ [dist |-> IF KeyError \in Range2(loop.queryDict)
                                  THEN Raised(options)
                                  ELSE Normalize(loop.queryDict)])

\* a * b of two numbers of at most Scale units each, as quotient and remainder
\* by Scale; the product is split so that no intermediate exceeds 32 bits
ProductQuot(a, b) ==
    (((a \div 1000) * b) \div 100)
        + (((((a \div 1000) * b) % 100) * 1000 + (a % 1000) * b) \div Scale)

ProductRem(a, b) == ((((a \div 1000) * b) % 100) * 1000 + (a % 1000) * b) % Scale

\* round(a * b, ROUND_DIGITS)
MulRound(a, b) ==
    Bind(ProductQuot(a, b), LAMBDA q :
        Bind(ProductRem(a, b), LAMBDA m :
            IF 2 * m > Scale THEN q + 1
            ELSE IF 2 * m < Scale THEN q
            ELSE IF q % 2 = 0 THEN q ELSE q + 1))

\* the chain rule gone wrong: the head is not added to the evidence
ForgetHead(e, head) == e

\* e | {querySet[0]: False}
ExtendEvidence(e, head) == Assign(e, head, "False")

\* BayesNetwork.EnumerationAskSet: the heap after the call and the value returned
RECURSIVE EnumerationAskSet(_, _, _, _)
EnumerationAskSet(heap, this, querySet, e) ==
    IF Len(querySet) = 0 THEN [heap |-> heap, val |-> Scale]
    ELSE Bind(EnumerationAsk(heap, this, <<querySet[1]>>, e), LAMBDA p :
            Bind(ExtendEvidence(e, querySet[1]) @@ EmptyDict, LAMBDA e1 :
                Bind(EnumerationAskSet(p.heap, this, Tail(querySet), e1), LAMBDA rest :
                    LET pFalse == IF "False" \in DOMAIN p.dist THEN p.dist["False"]
                                  ELSE KeyError
                    IN  [heap |-> rest.heap,
                         val |-> IF pFalse = KeyError \/ rest.val = KeyError
                                 THEN KeyError
                                 ELSE MulRound(pFalse, rest.val)])))

\* the dict comprehension of EnumerationAskAll, one deep copy of self per query
RECURSIVE AskAllLoop(_, _, _, _, _)
AskAllLoop(heap, this, queries, e, probabilityDict) ==
    IF queries = <<>> THEN [heap |-> heap, val |-> probabilityDict]
    ELSE Bind(DeepCopy(heap, this), LAMBDA copy :
            Bind(EnumerationAsk(copy.heap, copy.ref, <<Head(queries)>>, e), LAMBDA p :
                Bind(Assign(probabilityDict, Head(queries), p.dist) @@ EmptyDict,
                     LAMBDA d : AskAllLoop(p.heap, this, Tail(queries), e, d))))

\* BayesNetwork.EnumerationAskAll
EnumerationAskAll(heap, this, e) ==
    Bind(TopologicalSort(heap[this].bn), LAMBDA queries :
        AskAllLoop(heap, this, queries, e, EmptyDict))

\* ------------------------------------------------------- paths on the grid
\* G[n] of an undirected graph: the neighbours of n in the order their edges were added
RECURSIVE Adjacent(_, _)
Adjacent(es, n) ==
    IF es = <<>> THEN <<>>
    ELSE (IF Head(es)[1] = n THEN <<Head(es)[2]>>
          ELSE IF Head(es)[2] = n THEN <<Head(es)[1]>>
          ELSE <<>>) \o Adjacent(Tail(es), n)

\* nx.all_simple_paths(G, start, end): depth first, children in adjacency order
RECURSIVE SimplePathsFrom(_, _, _, _)
SimplePathsFrom(G, visited, children, end) ==
    IF children = <<>> THEN <<>>
    ELSE LET child == Head(children)
         IN  (IF child \in Range(visited) THEN <<>>
              ELSE IF child = end THEN <<Append(visited, child)>>
              ELSE SimplePathsFrom(G, Append(visited, child),
                                   Adjacent(G.edges, child), end))
             \o SimplePathsFrom(G, visited, Tail(children), end)

AllSimplePaths(G, start, end) ==
    SimplePathsFrom(G, <<start>>, Adjacent(G.edges, start), end)

\* the edges of the paths gone wrong: every edge written against the direction
\* of travel
PathEdgesBackwards(grid, start, end) ==
    LET allPathsNodes == AllSimplePaths(grid, start, end)
    IN  [i \in 1..Len(allPathsNodes) |->
            [j \in 1..(Len(allPathsNodes[i]) - 1) |->
                EdgeOf(allPathsNodes[i][j + 1], allPathsNodes[i][j])]]

\* BayesNetwork.AllSimplePathsStartToEndEdges
AllSimplePathsStartToEndEdges(grid, start, end) ==
    LET allPathsNodes == AllSimplePaths(grid, start, end)
    IN  [i \in 1..Len(allPathsNodes) |->
            [j \in 1..(Len(allPathsNodes[i]) - 1) |->
                EdgeOf(allPathsNodes[i][j], allPathsNodes[i][j + 1])]]

\* Python's order on lists of edge tuples
RECURSIVE PathLess(_, _)
PathLess(a, b) ==
    IF b = <<>> THEN FALSE
    ELSE IF a = <<>> THEN TRUE
    ELSE IF Head(a) # Head(b) THEN LexLess(Head(a), Head(b))
    ELSE PathLess(Tail(a), Tail(b))

\* the maximum gone wrong: by score alone, the first kept on a tie
MaxByScore(highProb, currPathProb) ==
    IF highProb[1] < currPathProb[1] THEN currPathProb ELSE highProb

\* max(highProb, currPathProb) of two (score, path) tuples: the first unless
\* the second is greater
MaxPair(highProb, currPathProb) ==
    IF \/ highProb[1] < currPathProb[1]
       \/ highProb[1] = currPathProb[1] /\ PathLess(highProb[2], currPathProb[2])
    THEN currPathProb
    ELSE highProb

\* the loop of FindNonBlockedPath over the paths
RECURSIVE PathLoop(_, _, _, _, _)
PathLoop(heap, this, allPathEdges, e, highProb) ==
    IF allPathEdges = <<>> THEN [heap |-> heap, val |-> highProb]
    ELSE Bind(EnumerationAskSet(heap, this, Head(allPathEdges), e), LAMBDA s :
            Bind(IF s.val = KeyError \/ highProb[1] = KeyError
                 THEN <<KeyError, <<>>>>
                 ELSE MaxPair(highProb, <<s.val, Head(allPathEdges)>>), LAMBDA best :
                PathLoop(s.heap, this, Tail(allPathEdges), e, best)))

\* BayesNetwork.FindNonBlockedPath
FindNonBlockedPath(heap, this, start, end, e) ==
    Bind(List(AllSimplePathsStartToEndEdges(heap[this].grid, start, end)),
         LAMBDA allPathEdges : PathLoop(heap, this, allPathEdges, e, <<0, <<>>>>))

\* ------------------------------------------------------------ the network
\* The network definition read by InitBN, in quarters: the season prior
\* 1/2, 1/4, 1/4; leakage 1/4; three vertices with base risks 1/4, 1/4 and 1/2;
\* two fragile edges meeting in (0, 1), with block parameters 1/2 and 1; the
\* grid is the 2 x 2 grid, whose vertex (1, 0) and edges ((0, 0), (1, 0)) and
\* ((1, 0), (1, 1)) have no CPT.
Leakage == Den \div 4

SeasonPrior == ("low" :> <<2>>) @@ ("medium" :> <<1>>) @@ ("high" :> <<1>>)

NodesCPT ==
    << <<(<<0, 0>>), CPTVertex(1)>>,
       <<(<<0, 1>>), CPTVertex(1)>>,
       <<(<<1, 1>>), CPTVertex(2)>> >>

FragEdgesCPT ==
    << <<(<<0, 0, 0, 1>>), CPTEdge(Den - 2, Leakage)>>,
       <<(<<0, 1, 1, 1>>), CPTEdge(Den - 4, Leakage)>> >>

InitBN == BayesNetwork(SeasonPrior, FragEdgesCPT, NodesCPT, 1, 1)

\* ---------------------------------------------------------------- inputs
GridVertices == Range(InitBN.grid.nodes)

\* the edges of the grid written in either endpoint order
GridEdges == {EdgeOf(d[1], d[2]) : d \in Range(InitBN.grid.edges)}
                \cup {EdgeOf(d[2], d[1]) : d \in Range(InitBN.grid.edges)}

NetworkVariables == Range(InitBN.bn.nodes)

\* what a caller may put in an evidence map: the variables of the network and
\* the grid edges in canonical order
EvidenceKeys == NetworkVariables \cup {Canonical(g) : g \in GridEdges}

Queries == {Season} \cup GridVertices \cup GridEdges

RECURSIVE Flatten(_)
Flatten(ss) == IF ss = <<>> THEN <<>> ELSE Head(ss) \o Flatten(Tail(ss))

\* BayesNetwork.AllSimplePathsEdges
AllSimplePathsEdges(obj) ==
    LET nodes == obj.grid.nodes
    IN  Flatten([i \in 1..(Len(nodes) * Len(nodes)) |->
            LET start == nodes[1 + ((i - 1) \div Len(nodes))]
                end == nodes[1 + ((i - 1) % Len(nodes))]
            IN  IF start # end THEN AllSimplePathsStartToEndEdges(obj.grid, start, end)
                ELSE <<>>])

\* the sequences EnumerationAskSet is called with: the paths and the empty list
QuerySets == {<<>>} \cup Range(AllSimplePathsEdges(InitBN))

\* ------------------------------------------------------------ the machine
Init ==
    /\ self = InitBN
    /\ evidence = EmptyDict
    /\ op = ""
    /\ arg = <<>>
    /\ before = EmptyDict
    /\ ret = 0
    /\ queryDict = EmptyDict

NoCall ==
    /\ op' = ""
    /\ arg' = <<>>
    /\ before' = EmptyDict
    /\ ret' = 0
    /\ queryDict' = EmptyDict

\* no call is outstanding, and the evidence map is one the caller has built
Idle == op = "" /\ Cardinality(DOMAIN evidence) <= MaxEvidence

\* the caller's evidence[node] = option
SetEvidence(node, option) ==
    /\ Cardinality(DOMAIN evidence \cup {node}) <= MaxEvidence
    /\ evidence' = Assign(evidence, node, option)
    /\ NoCall
    /\ UNCHANGED self

\* BayesNetwork.ClearEvidence
ClearEvidence ==
    /\ evidence' = EmptyDict
    /\ NoCall
    /\ UNCHANGED self

\* the caller has taken the result of the last call
Return ==
    /\ op # ""
    /\ NoCall
    /\ UNCHANGED <<self, evidence>>

\* a call EnumerationAsk([query], evidence)
CallEnumerationAsk(query) ==
    /\ Idle
    /\ \E r \in {EnumerationAsk(Heap(self), SelfRef, <<query>>, evidence)} :
           /\ self' = r.heap[SelfRef]
           /\ evidence' = r.e
           /\ ret' = r.dist
           /\ queryDict' = r.queryDict
    /\ op' = "EnumerationAsk"
    /\ arg' = <<query>>
    /\ before' = evidence

\* a call EnumerationAskSet(querySet, evidence)
CallEnumerationAskSet(querySet) ==
    /\ Idle
    /\ \E r \in {EnumerationAskSet(Heap(self), SelfRef, querySet, evidence)} :
           /\ self' = r.heap[SelfRef]
           /\ ret' = r.val
    /\ op' = "EnumerationAskSet"
    /\ arg' = querySet
    /\ before' = evidence
    /\ queryDict' = EmptyDict
    /\ UNCHANGED evidence

\* a call EnumerationAskAll(evidence)
CallEnumerationAskAll ==
    /\ Idle
    /\ \E r \in {EnumerationAskAll(Heap(self), SelfRef, evidence)} :
           /\ self' = r.heap[SelfRef]
           /\ ret' = r.val
    /\ op' = "EnumerationAskAll"
    /\ arg' = <<>>
    /\ before' = evidence
    /\ queryDict' = EmptyDict
    /\ UNCHANGED evidence

\* a call FindNonBlockedPath(start, end, evidence)
CallFindNonBlockedPath(start, end) ==
    /\ Idle
    /\ start # end
    /\ \E r \in {FindNonBlockedPath(Heap(self), SelfRef, start, end, evidence)} :
           /\ self' = r.heap[SelfRef]
           /\ ret' = r.val
    /\ op' = "FindNonBlockedPath"
    /\ arg' = <<start, end>>
    /\ before' = evidence
    /\ queryDict' = EmptyDict
    /\ UNCHANGED evidence

\* a call RemoveBarrenNodes(query, evidence)
CallRemoveBarrenNodes(query) ==
    /\ Idle
    /\ \E r \in {RemoveBarrenNodes(Heap(self), SelfRef, query, evidence)} :
           /\ self' = r.heap[SelfRef]
           /\ ret' = r.heap[r.ref].bn
    /\ op' = "RemoveBarrenNodes"
    /\ arg' = <<query>>
    /\ before' = evidence
    /\ queryDict' = EmptyDict
    /\ UNCHANGED evidence

Next ==
    \/ \E node \in EvidenceKeys : \E option \in Range(Options(node)) :
            SetEvidence(node, option)
    \/ ClearEvidence
    \/ Return
    \/ \E query \in Queries : CallEnumerationAsk(query)
    \/ \E querySet \in QuerySets : CallEnumerationAskSet(querySet)
    \/ CallEnumerationAskAll
    \/ \E start \in GridVertices : \E end \in GridVertices :
            CallFindNonBlockedPath(start, end)
    \/ \E query \in NetworkVariables : CallRemoveBarrenNodes(query)

Spec == Init /\ [][Next]_vars

\* ------------------------------------------------------------ the claims
\* the variable the last EnumerationAsk call was about
Asked == Canonical(arg[1])

InNetwork(v) == v \in Range(self.bn.nodes)

\* the last call was an EnumerationAsk that reached the enumeration
Enumerated ==
    /\ op = "EnumerationAsk"
    /\ InNetwork(Asked)
    /\ Asked \notin DOMAIN before

Within(a, b, tol) == a - b <= tol /\ b - a <= tol

Children(G, v) == {d[2] : d \in {c \in Range(G.edges) : c[1] = v}}

Parents(G, v) == {d[1] : d \in {c \in Range(G.edges) : c[2] = v}}

Descendants(G, v) ==
    Children(G, v) \cup UNION {Children(G, c) : c \in Children(G, v)}

\* the weight of the assignment e by enumeration over the whole network
FullWeight(e) == EnumerationAll(InitBN, TopologicalSort(InitBN.bn), e)

\* the distribution of q given e by enumeration over the whole network
FullAsk(q, e) ==
    Normalize([v \in Range(Options(q)) |-> FullWeight(Assign(e, q, v))] @@ EmptyDict)

AllZero(d) == \A k \in DOMAIN d : d[k] = 0

\* C1, as claimed: for every query q of the network and every evidence map
\* without q, the distribution EnumerationAsk computes on the pruned networks
\* equals, within the rounding, the one enumerated over the whole network.
C1_PruningInvariance ==
    Enumerated =>
        Bind(FullAsk(Asked, before), LAMBDA full :
            \A k \in DOMAIN ret : Within(ret[k], full[k], 1))

\* C2, as claimed: EnumerationAsk leaves the evidence map it is passed as it
\* was, and a later EnumerationAsk with that map answers as a first call would.
C2_AskLeavesEvidence ==
    op = "EnumerationAsk" =>
        /\ evidence = before
        /\ \A q \in Queries :
            EnumerationAsk(Heap(self), SelfRef, <<q>>, evidence).dist
                = EnumerationAsk(Heap(self), SelfRef, <<q>>, before).dist

\* C3: whatever calls were made, the DAG of the canonical network has the
\* nodes and the edges, and the network the CPT tables, it was constructed with.
C3_NetworkNeverMutated ==
    /\ Range(self.bn.nodes) = Range(InitBN.bn.nodes)
    /\ Range(self.bn.edges) = Range(InitBN.bn.edges)
    /\ self.season = InitBN.season
    /\ self.nodesCPT = InitBN.nodesCPT
    /\ self.fragEdgesCPT = InitBN.fragEdgesCPT

\* a pruning call that removed nodes from its copy has returned
C3_Witness ==
    /\ op = "RemoveBarrenNodes"
    /\ Len(ret.nodes) < Len(self.bn.nodes)

\* the variables of the sequence that are variables of the network
Variables(querySet) ==
    {Canonical(querySet[i]) : i \in 1..Len(querySet)} \cap Range(InitBN.bn.nodes)

\* e with every variable of vs observed False
RECURSIVE AllFalse(_, _)
AllFalse(e, vs) ==
    IF vs = {} THEN e
    ELSE LET v == CHOOSE x \in vs : TRUE
         IN  AllFalse(Assign(e, v, "False") @@ EmptyDict, vs \ {v})

\* the weight, in the whole network, of e together with every variable of the
\* sequence being False
JointWeight(querySet, e) ==
    IF \E v \in Variables(querySet) : v \in DOMAIN e /\ e[v] = "True" THEN 0
    ELSE FullWeight(AllFalse(e, Variables(querySet)))

\* C4, as claimed: for every non-contradictory evidence map e,
\* EnumerationAskSet(sequence, e) is the probability, in the whole network, that
\* every variable of the sequence is False given e, within one rounding unit
\* per step.
C4_AskSetIsJoint ==
    op = "EnumerationAskSet" =>
        Bind(FullWeight(before), LAMBDA pe :
            pe > 0 =>
                Bind(JointWeight(arg, before), LAMBDA joint :
                    Within(ret * pe, joint * Scale, Len(arg) * pe)))

\* the paths and their scores of the last FindNonBlockedPath call
PathsOfCall == List(AllSimplePathsStartToEndEdges(self.grid, arg[1], arg[2]))

ScoresOfCall ==
    List([i \in 1..Len(PathsOfCall) |->
            EnumerationAskSet(Heap(InitBN), SelfRef, PathsOfCall[i], before).val])

\* C5, as claimed: FindNonBlockedPath returns the greatest score of a simple
\* path together with the first path, in enumeration order, that has it.
C5_FirstBestPath ==
    op = "FindNonBlockedPath" =>
        Bind(PathsOfCall, LAMBDA paths : Bind(ScoresOfCall, LAMBDA scores :
            \E i \in 1..Len(paths) :
                /\ ret = <<scores[i], paths[i]>>
                /\ \A j \in 1..Len(paths) : scores[j] <= scores[i]
                /\ \A j \in 1..(i - 1) : scores[j] < scores[i]))

\* C5, amended: FindNonBlockedPath returns the greatest score of a simple path
\* together with, among the paths that have it, the greatest one in Python's
\* order on lists of edge tuples.
C5_GreatestBestPath ==
    op = "FindNonBlockedPath" =>
        Bind(PathsOfCall, LAMBDA paths : Bind(ScoresOfCall, LAMBDA scores :
            \E i \in 1..Len(paths) :
                /\ ret = <<scores[i], paths[i]>>
                /\ \A j \in 1..Len(paths) : scores[j] <= scores[i]
                /\ \A j \in 1..Len(paths) :
                    scores[j] = scores[i] => ~PathLess(paths[i], paths[j])))

\* two paths tie for the greatest score and the one enumerated later is returned
C5_Witness ==
    /\ op = "FindNonBlockedPath"
    /\ Bind(PathsOfCall, LAMBDA paths : Bind(ScoresOfCall, LAMBDA scores :
            \E i \in 1..Len(paths) : \E j \in 1..Len(paths) :
                /\ i < j
                /\ scores[i] = scores[j]
                /\ ret = <<scores[j], paths[j]>>))

\* C6: for a variable v of the network that the evidence map contains,
\* EnumerationAsk returns 1.0 on e[v] and 0.0 on the other values of v's
\* domain, whatever else the evidence holds.
C6_ObservedIsPointMass ==
    (op = "EnumerationAsk" /\ InNetwork(Asked) /\ Asked \in DOMAIN before) =>
        /\ DOMAIN ret = Range(Options(Asked))
        /\ \A k \in DOMAIN ret : ret[k] = IF k = before[Asked] THEN Scale ELSE 0

\* an observed variable was asked for while the evidence held another variable too
C6_Witness ==
    /\ op = "EnumerationAsk"
    /\ InNetwork(Asked)
    /\ Asked \in DOMAIN before
    /\ DOMAIN before # {Asked}

\* C7: for a query that is no node of the network EnumerationAsk returns
\* {True: 0.0, False: 1.0} and does not raise, also when the evidence map
\* assigns a value to that variable.
C7_AbsentIsFallback ==
    (op = "EnumerationAsk" /\ ~InNetwork(Asked)) =>
        /\ DOMAIN ret = {"True", "False"}
        /\ ret["True"] = 0
        /\ ret["False"] = Scale

\* a grid edge without CPT was asked for while the evidence map held it as True
C7_Witness ==
    /\ op = "EnumerationAsk"
    /\ ~InNetwork(Asked)
    /\ Asked \in DOMAIN before
    /\ before[Asked] = "True"

\* C8: when every weight collected is zero EnumerationAsk returns zero for
\* every value of the domain; otherwise every entry returned is the weight
\* divided by the sum of the weights, rounded to the nearest unit of
\* 10^-ROUND_DIGITS.
C8_NormalizeOrAllZero ==
    Enumerated =>
        /\ DOMAIN ret = Range(Options(Asked))
        /\ DOMAIN queryDict = DOMAIN ret
        /\ KeyError \notin Range2(queryDict)
        /\ Bind(Sum(queryDict, DOMAIN queryDict), LAMBDA sumQ :
            IF AllZero(queryDict) THEN AllZero(ret)
            ELSE \A k \in DOMAIN ret :
                    Within(2 * ret[k] * sumQ, 2 * queryDict[k] * Scale, sumQ))

\* an enumeration found every weight zero
C8_Witness == Enumerated /\ AllZero(queryDict) /\ AllZero(ret)

\* EnumerationAsk([v], e)[False] on the canonical network
AskFalse(v, e) == EnumerationAsk(Heap(InitBN), SelfRef, <<v>>, e).dist["False"]

\* C9: EnumerationAskSet([], e) is 1.0, EnumerationAskSet([x], e) is
\* EnumerationAsk(x, e)[False], and EnumerationAskSet([a, b], e) is the product
\* of EnumerationAsk(a, e)[False] and EnumerationAsk(b, e | {a: False})[False]
\* rounded to the nearest unit of 10^-ROUND_DIGITS.
C9_ChainRule ==
    op = "EnumerationAskSet" =>
        /\ Len(arg) = 0 => ret = Scale
        /\ Len(arg) = 1 => ret = AskFalse(arg[1], before)
        /\ Len(arg) = 2 =>
            Bind(AskFalse(arg[1], before), LAMBDA pa :
                Bind(AskFalse(arg[2], Assign(before, arg[1], "False") @@ EmptyDict),
                     LAMBDA pb :
                        \/ ret = ProductQuot(pa, pb) /\ 2 * ProductRem(pa, pb) <= Scale
                        \/ ret = ProductQuot(pa, pb) + 1
                             /\ 2 * ProductRem(pa, pb) >= Scale))

\* two edges of the network, written in canonical order, were asked for, and
\* the second factor is conditioned on the first
C9_Witness ==
    /\ op = "EnumerationAskSet"
    /\ Len(arg) = 2
    /\ \A i \in 1..2 : arg[i] \in Range(self.bn.nodes)
    /\ DOMAIN before = {}
    /\ AskFalse(arg[2], Assign(before, arg[1], "False")) # AskFalse(arg[2], before)
    /\ ret > 0

\* the row of v's CPT for the parent values observed in e, in units of
\* 10^-ROUND_DIGITS
RowOfCPT(v, e) ==
    LET p == VarCPT(InitBN, v)[Parent(v, e)]
    IN  ("True" :> (p * Scale) \div Den) @@ ("False" :> ((Den - p) * Scale) \div Den)

\* a vertex or an edge was asked for with every parent observed and no
\* descendant observed
ParentsObserved ==
    /\ Enumerated
    /\ ~IsStr(Asked)
    /\ Parents(InitBN.bn, Asked) \subseteq DOMAIN before
    /\ Descendants(InitBN.bn, Asked) \cap DOMAIN before = {}

\* C10, as claimed: with every parent of the query observed and no descendant
\* observed, EnumerationAsk returns the row of the query's CPT for the observed
\* parent values.
C10_RowOfCPT == ParentsObserved => ret = RowOfCPT(Asked, before)

\* C10, amended: with every parent of the query observed and no descendant
\* observed, EnumerationAsk returns the row of the query's CPT for the observed
\* parent values, unless every weight collected is zero (the evidence that
\* pruning keeps is contradictory), where it returns zero for both values.
C10_RowOfCPTUnlessZero ==
    ParentsObserved =>
        IF AllZero(queryDict) THEN AllZero(ret) ELSE ret = RowOfCPT(Asked, before)

\* a vertex was asked for with the season and one more variable observed, and
\* the weights were not all zero
C10_Witness ==
    /\ ParentsObserved
    /\ IsNode(Asked)
    /\ Cardinality(DOMAIN before) = 2
    /\ ~AllZero(queryDict)
    /\ ret = RowOfCPT(Asked, before)

\* the vertices a path of edges visits after its first one
VisitedAfterStart(path) == {Endpoint1(path[i]) : i \in 1..Len(path)}

\* C11: for distinct grid vertices start and end and every evidence map,
\* FindNonBlockedPath returns a score between 0 and 1 and a path of grid edges
\* whose first edge starts at start, whose every edge starts where the previous
\* one ends, whose last edge ends at end, and that visits no vertex twice.
C11_PathIsContiguous ==
    (op = "FindNonBlockedPath" /\ arg[1] # arg[2]) =>
        /\ ret[1] >= 0
        /\ ret[1] <= Scale
        /\ Len(ret[2]) >= 1
        /\ \A i \in 1..Len(ret[2]) : ret[2][i] \in GridEdges
        /\ Endpoint0(ret[2][1]) = arg[1]
        /\ \A i \in 1..(Len(ret[2]) - 1) : Endpoint1(ret[2][i]) = Endpoint0(ret[2][i + 1])
        /\ Endpoint1(ret[2][Len(ret[2])]) = arg[2]
        /\ arg[1] \notin VisitedAfterStart(ret[2])
        /\ Cardinality(VisitedAfterStart(ret[2])) = Len(ret[2])

\* a path of three edges was returned with a score strictly between 0 and 1
C11_Witness ==
    /\ op = "FindNonBlockedPath"
    /\ Len(ret[2]) = 3
    /\ ret[1] > 0
    /\ ret[1] < Scale
    /\ DOMAIN before # {}

\* the order EnumerationAsk enumerates for the value option of its query: the
\* topological order of the network pruned for the evidence extended with it
OrderFor(option) ==
    Bind(RemoveBarrenNodes(Heap(InitBN), SelfRef, Asked,
                           Assign(before, Asked, option) @@ EmptyDict), LAMBDA barrenBN :
        List(TopologicalSort(barrenBN.heap[barrenBN.ref].bn)))

\* every parent that Probability reads for nodes[i] is observed or stands
\* before nodes[i] in the order, so that the enumeration has assigned it
ParentsAssigned(nodes, e) ==
    \A i \in 1..Len(nodes) :
        \A parent \in Parents(InitBN.bn, nodes[i]) :
            \/ parent \in DOMAIN e
            \/ \E j \in 1..(i - 1) : nodes[j] = parent

\* C12: in every EnumerationAsk call, made directly or by EnumerationAskSet,
\* EnumerationAskAll or FindNonBlockedPath, each parent that Probability reads
\* for a variable has a value in the evidence at that moment, also when the
\* parent was removed by pruning, so that no lookup of a parent ever fails.
C12_ParentsAlwaysAssigned ==
    /\ op = "EnumerationAsk" =>
            /\ KeyError \notin Range2(queryDict)
            /\ KeyError \notin Range2(ret)
    /\ Enumerated =>
            \A option \in Range(Options(Asked)) :
                ParentsAssigned(OrderFor(option), Assign(before, Asked, option))
    /\ op = "EnumerationAskSet" => ret # KeyError
    /\ op = "FindNonBlockedPath" => ret[1] # KeyError
    /\ op = "EnumerationAskAll" =>
            \A q \in DOMAIN ret : KeyError \notin Range2(ret[q])

\* an edge was asked for after pruning had removed the season and one of the
\* edge's endpoints, both observed, and the enumeration read them from the
\* evidence
C12_Witness ==
    /\ Enumerated
    /\ IsEdge(Asked)
    /\ Season \in DOMAIN before
    /\ Endpoint0(Asked) \in DOMAIN before
    /\ \A option \in Range(Options(Asked)) :
            /\ Season \notin Range(OrderFor(option))
            /\ Endpoint0(Asked) \notin Range(OrderFor(option))
            /\ Endpoint1(Asked) \in Range(OrderFor(option))
    /\ ~AllZero(ret)

\* the nodes RemoveBarrenNodes removed from its copy in the last call
Removed == Range(self.bn.nodes) \ Range(ret.nodes)

\* C13: the network RemoveBarrenNodes(query, e) returns is the part of the
\* DAG on the nodes it kept, and the query is one of them; every node it
\* removed is either observed and not the query, with all its parents observed
\* and removed too, or unobserved and not the query, with all its children
\* removed too; and no node it kept is a parentless observed node other than
\* the query or a childless unobserved node other than the query.
C13_PruningIsAFixedPoint ==
    op = "RemoveBarrenNodes" =>
        /\ arg[1] \in Range(ret.nodes)
        /\ Range(ret.nodes) \subseteq Range(self.bn.nodes)
        /\ Range(ret.edges) =
                {d \in Range(self.bn.edges) : d[1] \notin Removed /\ d[2] \notin Removed}
        /\ \A n \in Removed :
                /\ n # arg[1]
                /\ IF n \in DOMAIN before
                   THEN Parents(self.bn, n) \subseteq Removed \cap DOMAIN before
                   ELSE Children(self.bn, n) \subseteq Removed
        /\ \A n \in Range(ret.nodes) :
                /\ ~(InDegree(ret, n) = 0 /\ n \in DOMAIN before /\ n # arg[1])
                /\ ~(OutDegree(ret, n) = 0 /\ n \notin DOMAIN before /\ n # arg[1])

\* a pruning removed an observed node in the forward pass and an unobserved
\* one in the backward pass, and kept an unobserved node besides the query
C13_Witness ==
    /\ op = "RemoveBarrenNodes"
    /\ \E n \in Removed : n \in DOMAIN before
    /\ \E n \in Removed : n \notin DOMAIN before
    /\ \E n \in Range(ret.nodes) : n # arg[1] /\ n \notin DOMAIN before

\* the sequence with its i-th edge (u, v) written (v, u)
Swapped(querySet, i) ==
    [querySet EXCEPT ![i] = EdgeOf(Endpoint1(@), Endpoint0(@))]

\* C14, as claimed: EnumerationAskSet returns the same value when any edge
\* (u, v) of its sequence is written (v, u), whatever the evidence; and the
\* best score of FindNonBlockedPath(start, end, e) is that of
\* FindNonBlockedPath(end, start, e).
C14_OrientationIndependent ==
    /\ op = "EnumerationAskSet" =>
            \A i \in 1..Len(arg) :
                EnumerationAskSet(Heap(InitBN), SelfRef, Swapped(arg, i), before).val = ret
    /\ op = "FindNonBlockedPath" =>
            FindNonBlockedPath(Heap(InitBN), SelfRef, arg[2], arg[1], before).val[1] = ret[1]

====
